---- MODULE Spec2Model ----
(***************************************************************************)
(* TimeSeriesImputer (autoimpute/imputations/ts.py) as a state machine.    *)
(*                                                                         *)
(* State: the constructor parameters and the attributes fit/transform set  *)
(* on the instance (_nc, _strats, statistics_), plus a record of the most  *)
(* recent call (its dataset, its error or returned dataset).               *)
(*                                                                         *)
(* A dataset is column-oriented: an ordered list of column names, a row    *)
(* index (time-typed or not) and one sequence of cells per column.  Cells  *)
(* are integers; NaN marks a missing cell.  Floating-point results (mean,  *)
(* interpolation) are computed with integer division.                      *)
(***************************************************************************)
EXTENDS Integers, Sequences, FiniteSets, TLC

\* ---------------------------------------------------------------- bounds
NRows == 3      \* rows of an enumerated dataset

\* the marker of a missing cell (what Series.isnull() is true of)
NaN == -1000

\* ---------------------------------------------------------------- helpers
Range(s) == {s[i] : i \in DOMAIN s}

Max(a, b) == IF a >= b THEN a ELSE b

RECURSIVE SumSeq(_)
SumSeq(s) == IF s = <<>> THEN 0 ELSE Head(s) + SumSeq(Tail(s))

\* the subsequence of the elements of s that are in S, in order
SelectCols(s, S) == SelectSeq(s, LAMBDA c : c \in S)

\* largest r with r*r <= n
ISqrt(n) == CHOOSE r \in 0..Max(n, 0) : r * r <= Max(n, 0) /\ (r + 1) * (r + 1) > Max(n, 0)

\* ---------------------------------------------------------------- datasets
\* Column dtypes are fixed by column name.
TimeCols == {"date", "date2"}
NumericCols == {"value"}
CategoricalCols == {"cat"}

NoData == [ixTime |-> FALSE, cols |-> <<>>, ix |-> <<>>, rid |-> <<>>,
           data |-> <<>>]

\* X.select_dtypes(include=[np.datetime64]).columns
TsColumns(X) == SelectCols(X.cols, TimeCols)

NumRows(X) == Len(X.rid)

ColSet(X) == Range(X.cols)

\* Series.isnull() positions of a column
NullPos(s) == {i \in DOMAIN s : s[i] = NaN}

\* the observed (non-missing) cells of a column, in row order
Observed(s) == SelectSeq(s, LAMBDA v : v # NaN)

HasMissing(X) == \E c \in ColSet(X) : NullPos(X.data[c]) # {}

\* the shapes (column order, kind of row index, order of the time axis) of
\* the enumerated datasets
Shapes ==
    { [cols |-> <<"value">>, ixTime |-> TRUE, order |-> "desc"],
      [cols |-> <<"value">>, ixTime |-> FALSE, order |-> "asc"],
      [cols |-> <<"date", "value">>, ixTime |-> FALSE, order |-> "desc"],
      [cols |-> <<"value", "date2", "date">>, ixTime |-> FALSE,
       order |-> "desc"],
      [cols |-> <<"date", "cat">>, ixTime |-> FALSE, order |-> "asc"],
      [cols |-> <<"date", "cat">>, ixTime |-> TRUE, order |-> "desc"] }

\* the cells of a time axis: ascending or descending days; date2 has ties.
\* Time-typed columns have no missing cell (the check_missingness
\* precondition of fit and transform).
TimeVals(c, n, order) ==
    [i \in 1..n |->
        IF c = "date2" THEN (i + 1) \div 2
        ELSE IF order = "asc" THEN i ELSE n + 1 - i]

\* a dataset of the shape whose value cells are pat
MkDataset(shape, pat) ==
    LET n == Len(pat) IN
    [ixTime |-> shape.ixTime,
     cols   |-> shape.cols,
     ix     |-> IF shape.ixTime THEN TimeVals("index", n, shape.order)
                ELSE [i \in 1..n |-> i - 1],
     rid    |-> [i \in 1..n |-> i],
     data   |-> [c \in Range(shape.cols) |->
                    IF c \in TimeCols THEN TimeVals(c, n, shape.order)
                    ELSE pat]]

\* the value cells with the rows of mask missing: row i observes i*i
Masked(n, mask) == [i \in 1..n |-> IF i \in mask THEN NaN ELSE i * i]

\* the scenario of the documentation: five ascending days, 1 _ 3 _ 5
ScenarioValues == <<1, NaN, 3, NaN, 5>>

ScenarioData ==
    MkDataset([cols |-> <<"date", "value">>, ixTime |-> FALSE,
               order |-> "asc"], ScenarioValues)

ScenarioIndexed ==
    MkDataset([cols |-> <<"value">>, ixTime |-> TRUE, order |-> "desc"],
              ScenarioValues)

\* check_missingness rejects a dataset without any observed cell
Datasets ==
    { X \in { MkDataset(sh, Masked(NRows, mask)) :
                sh \in Shapes, mask \in SUBSET (1..NRows) } :
        \E c \in ColSet(X) : Observed(X.data[c]) # <<>> }
    \cup {ScenarioData, ScenarioIndexed}

\* ---------------------------------------------------------------- registry
strategies ==
    {"default", "mean", "median", "mode", "random", "norm", "linear", "time",
     "none"}

\* a strategy request: one name, or a mapping column -> name (a set of pairs)
NameRequest(s) == [name |-> s, map |-> {}]
MapRequest(m) == [name |-> "", map |-> m]

Requests ==
    { NameRequest(s) : s \in strategies }
    \cup { MapRequest({<<"cat", "mode">>}),
           MapRequest({<<"value", "median">>}) }

IndexColumns == {"None", "date", "value"}
FillValues == {"None", "random"}

\* fill_value is read by mode imputation only (line 149)
UsesMode(req) ==
    \/ req.name \in {"mode", "default"}
    \/ \E p \in req.map : p[2] = "mode"

\* the constructor calls considered: fill_value is varied where it is read
Configs ==
    { c \in [strategy : Requests, index_column : IndexColumns,
              fill_value : FillValues] :
        c.fill_value = "random" =>
            (UsesMode(c.strategy) /\ c.index_column = "None") }

\* ---------------------------------------------------------------- learning
\* (autoimpute.imputations.methods: the functions of the registry)
RECURSIVE SortedSeqOf(_)
SortedSeqOf(S) ==
    IF S = {} THEN <<>>
    ELSE LET m == CHOOSE x \in S : \A y \in S : x <= y
         IN <<m>> \o SortedSeqOf(S \ {m})

Count(s, v) == Cardinality({i \in DOMAIN s : s[i] = v})

_mean(obs) == SumSeq(obs) \div Len(obs)

_median(obs) ==
    LET srt == SortSeq(obs, LAMBDA a, b : a < b)
        n   == Len(srt)
    IN IF n % 2 = 1 THEN srt[(n + 1) \div 2]
       ELSE (srt[n \div 2] + srt[n \div 2 + 1]) \div 2

\* the most frequent observed values, ascending (Series.mode())
_mode(obs) ==
    SortedSeqOf({v \in Range(obs) :
                    \A w \in Range(obs) : Count(obs, w) <= Count(obs, v)})

_std(obs) ==
    LET mu == _mean(obs)
    IN ISqrt(SumSeq([i \in DOMAIN obs |-> (obs[i] - mu) * (obs[i] - mu)])
             \div Len(obs))

\* what a column's "default" resolves to, by dtype
_ts_default(col) == IF col \in NumericCols THEN "linear" ELSE "mode"

\* f(X[col_name]) of fit: <<fit_param, fit_name>>, or a failure when a
\* numeric statistic is asked of a categorical column
LearnFails(strat, col) ==
    col \in CategoricalCols /\ strat \in {"mean", "median", "norm"}

Learn(strat, col, s) ==
    LET name == IF strat = "default" THEN _ts_default(col) ELSE strat
        obs  == Observed(s)
    IN [strategy |-> name,
        param |->
            CASE name = "mean"   -> <<_mean(obs)>>
              [] name = "median" -> <<_median(obs)>>
              [] name = "mode"   -> _mode(obs)
              [] name = "random" -> obs
              [] name = "norm"   -> <<_mean(obs), _std(obs)>>
              [] OTHER           -> <<>>]

\* ---------------------------------------------------------------- fit helpers
\* autoimpute.utils.helpers._nan_col_dropper: the names of the columns whose
\* every cell is missing, in column order
_nan_col_dropper(X) ==
    SelectSeq(X.cols, LAMBDA c : Observed(X.data[c]) = <<>>)

MapKeys(m) == {p[1] : p \in m}
MapGet(m, c) == (CHOOSE p \in m : p[1] = c)[2]

\* autoimpute.utils.checks._check_fit_strat
CheckFitStratFails(req, ocols) ==
    req.name = "" /\ ~(MapKeys(req.map) \subseteq Range(ocols))

_check_fit_strat(req, dropped, ocols, ncols) ==
    [i \in DOMAIN ncols |->
        [col |-> ncols[i],
         strat |-> IF req.name # "" THEN req.name
                   ELSE IF ncols[i] \in MapKeys(req.map)
                        THEN MapGet(req.map, ncols[i])
                        ELSE "default"]]

StratKeys(st) == {st[i].col : i \in DOMAIN st}

\* ---------------------------------------------------------------- state
VARIABLES
    cfg,          \* strategy, index_column, fill_value (set by __init__)
    attrs,        \* the fitted attributes that exist on the instance
    _nc,          \* self._nc
    _strats,      \* self._strats: column -> strategy, in insertion order
    statistics_,  \* self.statistics_: column -> {param, strategy}, in order
    fitted,       \* history of the fit calls: whether one succeeded, how the
                  \* last one ended, the columns of the last successful one,
                  \* and whether it dropped a column of the one before it
    last          \* the most recent call: op, dataset, error, result

vars == <<cfg, attrs, _nc, _strats, statistics_, fitted, last>>

\* after: the call whose dataset this call was given ("fit": the dataset
\* just fit, "transform": the dataset the previous transform returned)
NoCall == [op |-> "init", X |-> NoData, err |-> "", out |-> NoData,
           promoted |-> "", after |-> ""]

Init ==
    /\ cfg \in Configs
    /\ attrs = {}
    /\ _nc = <<>>
    /\ _strats = <<>>
    /\ statistics_ = <<>>
    /\ fitted = [ever |-> FALSE, last |-> "never", cols |-> {},
                 dropped |-> FALSE]
    /\ last = NoCall

\* ---------------------------------------------------------------- fit
\* a fit that keeps the entries of the previous fit
InitStatisticsKeep(old) == old

\* line 109: self.statistics_ = {}
InitStatistics(old) == <<>>

\* lines 115-119: learn the columns of st from position i on, appending to
\* acc; stops at the first column whose learning function raises
RECURSIVE LearnLoop(_, _, _, _)
LearnLoop(X, st, i, acc) ==
    IF i > Len(st) THEN [ok |-> TRUE, stats |-> acc]
    ELSE IF LearnFails(st[i].strat, st[i].col)
         THEN [ok |-> FALSE, stats |-> acc]
         ELSE LET l == Learn(st[i].strat, st[i].col, X.data[st[i].col])
              IN LearnLoop(X, st, i + 1,
                           Append(acc, [col |-> st[i].col,
                                        param |-> l.param,
                                        strategy |-> l.strategy]))

MissingTemporalAxis(X) == ~X.ixTime /\ TsColumns(X) = <<>>

fit(X) ==
    last.op = "init" /\
    LET dropped == _nan_col_dropper(X)
        ocols   == X.cols
        ncols   == SelectSeq(X.cols, LAMBDA c : c \notin Range(dropped))
        st      == _check_fit_strat(cfg.strategy, dropped, ocols, ncols)
        learned == LearnLoop(X, st, 1, InitStatistics(statistics_))
        Called(e) == [op |-> "fit", X |-> X, err |-> e, out |-> NoData,
                      promoted |-> "", after |-> ""]
    IN
    IF MissingTemporalAxis(X) THEN
        \* lines 56-59: raises before anything is assigned
        /\ last' = Called("MissingTemporalAxis")
        /\ fitted' = [fitted EXCEPT !.last = "failed"]
        /\ UNCHANGED <<cfg, attrs, _nc, _strats, statistics_>>
    ELSE IF CheckFitStratFails(cfg.strategy, ocols) THEN
        \* line 63 has assigned self._nc when line 65 raises
        /\ _nc' = dropped
        /\ attrs' = attrs \cup {"_nc"}
        /\ last' = Called("InvalidStrategyMapping")
        /\ fitted' = [fitted EXCEPT !.last = "failed"]
        /\ UNCHANGED <<cfg, _strats, statistics_>>
    ELSE
        /\ _nc' = dropped
        /\ _strats' = st
        /\ statistics_' = learned.stats
        /\ attrs' = {"_nc", "_strats", "statistics_"}
        /\ last' = Called(IF learned.ok THEN "" ELSE "LearnError")
        /\ fitted' = IF learned.ok
                     THEN [ever |-> TRUE, last |-> "ok", cols |-> StratKeys(st),
                           dropped |-> fitted.cols \ StratKeys(st) # {}]
                     ELSE [fitted EXCEPT !.last = "failed"]
        /\ UNCHANGED cfg

Fit == \E X \in Datasets : fit(X)

\* ---------------------------------------------------------------- transform helpers
\* a pop that removes the first entry instead of the entry of col
PopStratFirst(st, col) == IF st = <<>> THEN st ELSE Tail(st)

\* self._strats.pop(col, None) (lines 87, 92, 96)
PopStrat(st, col) == SelectSeq(st, LAMBDA e : e.col # col)

\* lines 84-100: the column set as index, or the error raised instead
PromotedColumn(X, ic) ==
    LET ts == TsColumns(X)
        Ok(c) == [err |-> "", col |-> c]
        Raise(e) == [err |-> e, col |-> ""]
    IN IF X.ixTime THEN Ok("")
       ELSE IF ts = <<>> THEN Raise("IndexError")      \* ts.columns[0]
       ELSE IF Len(ts) = 1 THEN Ok(ts[1])
       ELSE IF ic = "None" THEN Ok(ts[1])
       ELSE IF ic \in Range(ts) THEN Ok(ic)
       ELSE Raise("InvalidIndexColumn")

\* X.set_index(col, drop=True)
set_index(X, col) ==
    [ixTime |-> TRUE,
     cols   |-> SelectSeq(X.cols, LAMBDA c : c # col),
     ix     |-> X.data[col],
     rid    |-> X.rid,
     data   |-> [c \in ColSet(X) \ {col} |-> X.data[c]]]

\* the row at position k of the ascending, stable order of the index
SortPerm(ix) ==
    LET Rank(i) == Cardinality({j \in DOMAIN ix :
                        ix[j] < ix[i] \/ (ix[j] = ix[i] /\ j < i)}) + 1
    IN [k \in DOMAIN ix |-> CHOOSE i \in DOMAIN ix : Rank(i) = k]

\* X.sort_index(ascending=True, inplace=True)
sort_index(X) ==
    LET p == SortPerm(X.ix)
        Permute(s) == [k \in DOMAIN p |-> s[p[k]]]
    IN [X EXCEPT !.ix = Permute(X.ix), !.rid = Permute(X.rid),
                 !.data = [c \in ColSet(X) |-> Permute(X.data[c])]]

\* a fill that overwrites the observed cells too
FillConstAll(s, v) == [i \in DOMAIN s |-> v]

\* Series.fillna(v): the missing cells, and only those, become v
FillConst(s, v) == [i \in DOMAIN s |-> IF s[i] = NaN THEN v ELSE s[i]]

\* one draw from S per missing cell: every way to fill the missing cells
FillChoices(s, S) ==
    { [i \in DOMAIN s |-> IF s[i] = NaN THEN f[i] ELSE s[i]] :
        f \in [NullPos(s) -> S] }

\* what the interpolation does with the gap before the first observed cell
EdgeRules == {"both", "forward"}

\* autoimpute.imputations.methods._interp: Series.interpolate(method=strat)
_interp(s, ix, strat, edge) ==
    LET x(k) == IF strat = "time" THEN ix[k] ELSE k
        Prev(i) == {j \in DOMAIN s : j < i /\ s[j] # NaN}
        Nxt(i)  == {j \in DOMAIN s : j > i /\ s[j] # NaN}
        P(i) == CHOOSE j \in Prev(i) : \A k \in Prev(i) : k <= j
        Q(i) == CHOOSE j \in Nxt(i) : \A k \in Nxt(i) : k >= j
        At(i) ==
            IF Prev(i) # {} /\ Nxt(i) # {} THEN
                IF x(Q(i)) = x(P(i)) THEN s[P(i)]
                ELSE s[P(i)] + ((s[Q(i)] - s[P(i)]) * (x(i) - x(P(i))))
                                   \div (x(Q(i)) - x(P(i)))
            ELSE IF Prev(i) # {} THEN s[P(i)]
            ELSE IF Nxt(i) # {} /\ edge = "both" THEN s[Q(i)]
            ELSE NaN
    IN [i \in DOMAIN s |-> IF s[i] = NaN THEN At(i) ELSE s[i]]

\* autoimpute.utils.helpers._mode_output
_mode_output(s, modes, fill_value) ==
    IF Len(modes) = 1 \/ fill_value = "None" THEN {FillConst(s, modes[1])}
    ELSE FillChoices(s, Range(modes))

\* scipy.stats.norm.rvs(loc=mu, scale=std): some draws of the distribution
NormDraws(mu, std) == {mu - std, mu, mu + std}

\* lines 145-164: every column the branch of stat.strategy can produce
FillColumn(s, ix, stat, fill_value, edge) ==
    CASE stat.strategy \in {"mean", "median"} -> {FillConst(s, stat.param[1])}
      [] stat.strategy = "mode" -> _mode_output(s, stat.param, fill_value)
      [] stat.strategy = "random" -> FillChoices(s, Range(stat.param))
      [] stat.strategy \in {"linear", "time"} ->
            {_interp(s, ix, stat.strategy, edge)}
      [] stat.strategy = "norm" ->
            FillChoices(s, NormDraws(stat.param[1], stat.param[2]))
      [] OTHER -> {s}

\* lines 134-165: the loop over statistics_ from position i on; X[col_name]
\* raises KeyError when the column is not in X
RECURSIVE FillLoop(_, _, _, _, _)
FillLoop(X, stats, i, fill_value, edge) ==
    IF i > Len(stats) THEN {[err |-> "", X |-> X]}
    ELSE IF stats[i].col \notin ColSet(X)
         THEN {[err |-> "KeyError", X |-> NoData]}
         ELSE UNION { FillLoop([X EXCEPT !.data[stats[i].col] = s],
                               stats, i + 1, fill_value, edge) :
                        s \in FillColumn(X.data[stats[i].col], X.ix, stats[i],
                                         fill_value, edge) }

\* ---------------------------------------------------------------- transform
transform(X) ==
    LET Called(e, out, pc) == [op |-> "transform", X |-> X, err |-> e,
                               out |-> out, promoted |-> pc,
                               after |-> IF last.op = "init" THEN ""
                                         ELSE last.op]
        pr == PromotedColumn(X, cfg.index_column)
        X1 == IF pr.col = "" THEN X ELSE set_index(X, pr.col)
        X2 == sort_index(X1)
    IN
    IF "statistics_" \notin attrs THEN
        \* line 129: check_is_fitted
        /\ last' = Called("NotFitted", NoData, "")
        /\ UNCHANGED <<cfg, attrs, _nc, _strats, statistics_, fitted>>
    ELSE IF StratKeys(_strats) \ ColSet(X) # {} THEN
        \* lines 71-76
        /\ last' = Called("ColumnMismatch", NoData, "")
        /\ UNCHANGED <<cfg, attrs, _nc, _strats, statistics_, fitted>>
    ELSE IF pr.err # "" THEN
        /\ last' = Called(pr.err, NoData, "")
        /\ UNCHANGED <<cfg, attrs, _nc, _strats, statistics_, fitted>>
    ELSE
        /\ _strats' = IF pr.col = "" THEN _strats ELSE PopStrat(_strats, pr.col)
        /\ \E r \in UNION { FillLoop(X2, statistics_, 1, cfg.fill_value, edge) :
                              edge \in EdgeRules } :
              last' = Called(r.err, r.X, pr.col)
        /\ UNCHANGED <<cfg, attrs, _nc, statistics_, fitted>>

Transform == \E X \in Datasets : last.op = "init" /\ transform(X)

\* fit(X) followed by transform(X), as TransformerMixin.fit_transform does
FitTransform ==
    /\ last.op = "fit" /\ last.err = ""
    /\ transform(last.X)

\* transform applied to the dataset the previous transform returned
TransformAgain ==
    /\ last.op = "transform" /\ last.err = ""
    /\ transform(last.out)

\* the caller takes the result of the call: no call is on record
Return ==
    /\ last.op # "init"
    /\ last' = NoCall
    /\ UNCHANGED <<cfg, attrs, _nc, _strats, statistics_, fitted>>

Next == Fit \/ Transform \/ FitTransform \/ TransformAgain \/ Return

Spec == Init /\ [][Next]_vars

\* ---------------------------------------------------------------- properties
StatKeys(stats) == {stats[i].col : i \in DOMAIN stats}

AllMissingCols(X) == {c \in ColSet(X) : \A i \in DOMAIN X.data[c] : X.data[c][i] = NaN}

\* the position in X of the row that is row k of Y
RowIn(X, Y, k) == CHOOSE j \in DOMAIN X.rid : X.rid[j] = Y.rid[k]

IsTransform == last.op = "transform"
IsFit == last.op = "fit"

\* C1: a transform call made while no fit call has completed successfully
\* fails with NotFitted and returns no dataset.
C1_TransformBeforeFit ==
    (IsTransform /\ ~fitted.ever) =>
        (last.err = "NotFitted" /\ last.out = NoData)

\* C2: a fit call that fails leaves _strats, _nc and statistics_ (and which
\* of them exist) as they were before the call.
C2_FailedFitKeepsState ==
    [][(last'.op = "fit" /\ last'.err # "") =>
        (/\ _strats' = _strats
         /\ _nc' = _nc
         /\ statistics_' = statistics_
         /\ attrs' = attrs)]_vars

\* C3: a transform that promotes a time-typed column to the index does not
\* visit that column in its fill loop and completes; fit then transform of
\* the [date, value] scenario with "linear" returns value = 1 2 3 4 5.
C3_PromotedColumnNotFilled ==
    /\ (IsTransform /\ last.promoted # "") => last.err = ""
    /\ (/\ IsTransform /\ last.after = "fit"
        /\ last.X = ScenarioData
        /\ cfg.strategy = NameRequest("linear"))
       => (last.err = "" /\ last.out.data["value"] = <<1, 2, 3, 4, 5>>)

\* C4: fit followed by transform of a dataset that has a temporal axis and
\* no all-missing column returns a dataset without a missing cell in every
\* column given a strategy other than "none".
C4_NoMissingAfterFitTransform ==
    (/\ IsTransform /\ last.after = "fit"
     /\ AllMissingCols(last.X) = {})
    => /\ last.err = ""
       /\ \A i \in DOMAIN statistics_ :
            (statistics_[i].strategy # "none"
             /\ statistics_[i].col \in ColSet(last.out))
            => NullPos(last.out.data[statistics_[i].col]) = {}

\* the rows of X are the rows of the result, and a cell of X that is not
\* missing has its value in the result
RowsAndCellsKept(X, out) ==
    /\ NumRows(out) = NumRows(X)
    /\ Range(out.rid) = Range(X.rid)
    /\ \A k \in DOMAIN out.rid : \A c \in ColSet(out) \cap ColSet(X) :
          X.data[c][RowIn(X, out, k)] # NaN
          => out.data[c][k] = X.data[c][RowIn(X, out, k)]

C6_PromotionRule ==
    [][(/\ last'.op = "transform"
        /\ ~(last'.err \in {"NotFitted", "ColumnMismatch"}))
       =>
       LET X  == last'.X
           ts == TsColumns(X)
           ic == cfg.index_column
       IN IF X.ixTime THEN last'.promoted = ""
          ELSE IF Len(ts) = 1 THEN last'.promoted = ts[1]
          ELSE IF ic # "None" /\ ic \in Range(ts) THEN last'.promoted = ic
          ELSE IF ic = "None" THEN (ts # <<>> => last'.promoted = ts[1])
          ELSE /\ last'.err = "InvalidIndexColumn"
               /\ last'.promoted = ""
               /\ _strats' = _strats]_vars

\* C7: after a successful fit, a transform of a dataset that lacks a column
\* that was fit fails with ColumnMismatch, whatever transforms ran before.
C7_ColumnMismatch ==
    (IsTransform /\ fitted.last = "ok" /\ fitted.cols \ ColSet(last.X) # {})
        => last.err = "ColumnMismatch"

\* the dataset has a time axis that transform can use under index_column ic
UsableAxis(X, ic) ==
    \/ X.ixTime
    \/ Len(TsColumns(X)) = 1
    \/ Len(TsColumns(X)) > 1 /\ (ic = "None" \/ ic \in Range(TsColumns(X)))

\* C8: for a fitted instance and a dataset without missing cells that has
\* the fitted columns and a usable time axis, transform succeeds, and
\* transform of its result succeeds and returns that result.
C8_Idempotent ==
    /\ (/\ IsTransform /\ fitted.last = "ok"
        /\ ~HasMissing(last.X)
        /\ fitted.cols \subseteq ColSet(last.X)
        /\ UsableAxis(last.X, cfg.index_column))
       => last.err = ""
    /\ (/\ IsTransform /\ fitted.last = "ok"
        /\ last.after = "transform"
        /\ ~HasMissing(last.X))
       => (last.err = "" /\ last.out = last.X)

\* C9: a transform call, successful or failed, leaves statistics_ as it was
\* and changes _strats only by removing the entry of the column it promoted.
C9_TransformFrame ==
    [][last'.op = "transform" =>
        (/\ statistics_' = statistics_
         /\ attrs' = attrs
         /\ _strats' = SelectSeq(_strats, LAMBDA e : e.col # last'.promoted))]_vars

C9_Witness ==
    /\ IsTransform
    /\ last.promoted \in fitted.cols
    /\ last.promoted \notin StratKeys(_strats)
    /\ last.promoted \in StatKeys(statistics_)
    /\ _strats # <<>>

\* C10: right after a successful fit the columns of statistics_ are the
\* columns of _strats, which are the columns of the fit dataset that are
\* not all missing: nothing of an earlier fit is left.
C10_FitReplacesState ==
    (IsFit /\ last.err = "") =>
        (/\ StatKeys(statistics_) = StratKeys(_strats)
         /\ StratKeys(_strats) = ColSet(last.X) \ AllMissingCols(last.X)
         /\ Len(statistics_) = Len(_strats)
         /\ attrs = {"_nc", "_strats", "statistics_"})

C10_Witness ==
    /\ IsFit /\ last.err = ""
    /\ fitted.dropped
    /\ AllMissingCols(last.X) # {}
    /\ statistics_ # <<>>

====
